---- MODULE Spec2Model ----
(***************************************************************************)
(* A model of two parts of the submariner operator's subctl:               *)
(*   - package broker: the globalnet ConfigMap ("submariner-globalnet-     *)
(*     info") that records every cluster's global CIDRs, with its create,  *)
(*     get and update functions;                                           *)
(*   - package cmd: "subctl diagnose deployment", which walks the cluster  *)
(*     contexts and runs checkPods and checkOverlappingCIDRs on each.      *)
(***************************************************************************)
EXTENDS Integers, Sequences, FiniteSets, TLC

\* ------------------------------------------------------------------ bounds

\* The ConfigMap is written at most this many times (resourceVersion cap).
MaxVersion == 4

\* The longest allocation list the merge is tried on.
MaxAllocations == 2

\* The most cluster contexts of a run of subctl diagnose deployment.
MaxContexts == 2

\* The most endpoints the overlap check is tried on.
MaxEndpoints == 3

\* The accepted upserts a recorded sequence of calls may make.
MaxUpserts == 3

\* ------------------------------------------------------- broker: constants

GlobalnetStatusKey == "globalnetEnabled"
ClusterInfoKey == "clusterinfo"
GlobalnetCidrRange == "globalnetCidrRange"
GlobalnetClusterSize == "globalnetClusterSize"

\* The callers of package broker (concurrent subctl runs).
Writers == {"w1", "w2"}

\* Cluster IDs and global CIDR lists a caller may pass as newCluster.
ClusterIDs == {"A", "B", "C"}

\* A Go slice is a sequence; a nil slice and an empty one are both <<>> (they
\* behave alike in range, append and len; only their JSON text differs).
GlobalCidrLists == {<<>>, <<"169.254.0.0/19">>, <<"169.254.32.0/19", "169.254.64.0/19">>}

\* The newCluster values of the callers that run one after another, and of
\* those that run concurrently.
SequentialClusters ==
    [ClusterID : {"A", "B"},
     GlobalCidr : {<<"169.254.0.0/19">>, <<"169.254.32.0/19", "169.254.64.0/19">>}]

ConcurrentClusters ==
    {[ClusterID |-> "A", GlobalCidr |-> <<"169.254.0.0/19">>],
     [ClusterID |-> "A", GlobalCidr |-> <<"169.254.32.0/19", "169.254.64.0/19">>],
     [ClusterID |-> "B", GlobalCidr |-> <<"169.254.0.0/19">>]}

\* Arguments of CreateGlobalnetConfigMap.
CidrRanges == {"169.254.0.0/16"}

ClusterSizes == {8192}

\* No object: a nil *v1.ConfigMap, or no ConfigMap in the namespace.
NoConfigMap == [present |-> FALSE, resourceVersion |-> 0, Data |-> [k \in {} |-> ""]]

\* error values
Nil == "nil"

ErrAlreadyExists == "AlreadyExists"

ErrNotFound == "NotFound"

ErrConflict == "Conflict"

ErrStore == "StoreError"

ErrUnmarshal == "UnmarshalError"

\* ---------------------------------------------------- broker: JSON codec
\* JSON text is a sequence of tokens; white space (MarshalIndent's tabs and
\* new lines), commas and colons carry no information and are left out.

Tok(t, v) == [t |-> t, v |-> v]

LBracket == Tok("[", "")

RBracket == Tok("]", "")

LBrace == Tok("{", "")

RBrace == Tok("}", "")

Null == Tok("null", "")

Key(k) == Tok("key", k)

Str(s) == Tok("str", s)

RECURSIVE MarshalStrings(_)
MarshalStrings(s) ==
    IF s = <<>> THEN <<>> ELSE <<Str(Head(s))>> \o MarshalStrings(Tail(s))

\* A []string value.
MarshalGlobalCidr(c) == <<LBracket>> \o MarshalStrings(c) \o <<RBracket>>

\* One ClusterInfo, with the field names of its json tags.
MarshalClusterInfo(e) ==
    <<LBrace, Key("cluster_id"), Str(e.ClusterID), Key("global_cidr")>>
        \o MarshalGlobalCidr(e.GlobalCidr) \o <<RBrace>>

RECURSIVE MarshalEntries(_)
MarshalEntries(l) ==
    IF l = <<>> THEN <<>> ELSE MarshalClusterInfo(Head(l)) \o MarshalEntries(Tail(l))

\* json.MarshalIndent(clusterInfo, "", "\t")
MarshalIndent(clusterInfo) == <<LBracket>> \o MarshalEntries(clusterInfo) \o <<RBracket>>

\* A parse result: ok, the value and the position after it.
Parsed(v, n) == [ok |-> TRUE, val |-> v, next |-> n]

ParseError == [ok |-> FALSE, val |-> <<>>, next |-> 0]

At(text, i) == IF i <= Len(text) THEN text[i] ELSE Tok("eof", "")

\* The strings of an array, from position i up to its closing bracket.
RECURSIVE ParseStrings(_, _, _)
ParseStrings(text, i, acc) ==
    IF At(text, i) = RBracket THEN Parsed(acc, i + 1)
    ELSE IF At(text, i).t = "str"
         THEN ParseStrings(text, i + 1, Append(acc, At(text, i).v))
         ELSE ParseError

ParseGlobalCidr(text, i) ==
    IF At(text, i) = Null THEN Parsed(<<>>, i + 1)
    ELSE IF At(text, i) = LBracket THEN ParseStrings(text, i + 1, <<>>)
         ELSE ParseError

ParseClusterInfo(text, i) ==
    IF /\ At(text, i) = LBrace
       /\ At(text, i + 1) = Key("cluster_id")
       /\ At(text, i + 2).t = "str"
       /\ At(text, i + 3) = Key("global_cidr")
    THEN LET c == ParseGlobalCidr(text, i + 4)
         IN IF c.ok /\ At(text, c.next) = RBrace
            THEN Parsed([ClusterID |-> At(text, i + 2).v, GlobalCidr |-> c.val], c.next + 1)
            ELSE ParseError
    ELSE ParseError

RECURSIVE ParseEntries(_, _, _)
ParseEntries(text, i, acc) ==
    IF At(text, i) = RBracket THEN Parsed(acc, i + 1)
    ELSE LET e == ParseClusterInfo(text, i)
         IN IF e.ok THEN ParseEntries(text, e.next, Append(acc, e.val)) ELSE ParseError

UnmarshalIgnoringError(text) ==
    IF At(text, 1) = LBracket
    THEN LET p == ParseEntries(text, 2, <<>>)
         IN [err |-> Nil, clusterInfo |-> IF p.ok /\ p.next = Len(text) + 1 THEN p.val ELSE <<>>]
    ELSE [err |-> Nil, clusterInfo |-> <<>>]

\* json.Unmarshal(text, &clusterInfo): err is set unless the whole text is
\* one array of ClusterInfo objects, or null (which leaves the slice nil).
Unmarshal(text) ==
    IF text = <<Null>> THEN [err |-> Nil, clusterInfo |-> <<>>]
    ELSE IF At(text, 1) = LBracket
         THEN LET p == ParseEntries(text, 2, <<>>)
              IN IF p.ok /\ p.next = Len(text) + 1
                 THEN [err |-> Nil, clusterInfo |-> p.val]
                 ELSE [err |-> ErrUnmarshal, clusterInfo |-> <<>>]
         ELSE [err |-> ErrUnmarshal, clusterInfo |-> <<>>]

\* fmt.Sprint of a uint: its decimal digits, most significant first.
RECURSIVE Sprint(_)
Sprint(n) == IF n < 10 THEN <<n>> ELSE Append(Sprint(n \div 10), n % 10)

\* json.Marshal of a string: the quoted string.
MarshalString(s) == <<Str(s)>>

\* ------------------------------------------------------ cmd: CIDR strings
\* A subnet string is what net.ParseCIDR makes of it: not a CIDR, or the
\* octets of its address (4 for IPv4, 16 for IPv6) and its prefix length.

CIDR(ip, len) == [ok |-> TRUE, ip |-> ip, len |-> len]

NotACIDR == [ok |-> FALSE, ip |-> <<>>, len |-> 0]

ErrParse == "ParseError"

\* How many of the prefix's bits fall into octet i.
BitsIn(len, i) ==
    IF len >= 8 * i THEN 8 ELSE IF len <= 8 * (i - 1) THEN 0 ELSE len - 8 * (i - 1)

\* ip & mask, for the mask of a prefix of len bits.
Masked(ip, len) ==
    [i \in 1..Len(ip) |-> (ip[i] \div 2^(8 - BitsIn(len, i))) * 2^(8 - BitsIn(len, i))]

\* net.ParseCIDR: the network, whose IP is the address under the mask.
ParseCIDR(s) ==
    IF s.ok THEN [err |-> Nil, net |-> [ip |-> Masked(s.ip, s.len), len |-> s.len]]
    ELSE [err |-> ErrParse, net |-> [ip |-> <<>>, len |-> 0]]

\* (*net.IPNet).Contains: false across address families.
Contains(net, ip) == Len(ip) = Len(net.ip) /\ Masked(ip, net.len) = net.ip

\* The loop of cidr.IsOverlapping over cidrList, from its k-th string on.
RECURSIVE OverlapsFrom(_, _, _)
OverlapsFrom(cidrList, newNet, k) ==
    IF k > Len(cidrList) THEN [overlap |-> FALSE, err |-> Nil]
    ELSE LET base == ParseCIDR(cidrList[k])
         IN IF base.err # Nil THEN [overlap |-> FALSE, err |-> base.err]
            ELSE IF Contains(base.net, newNet.ip) \/ Contains(newNet, base.net.ip)
                 THEN [overlap |-> TRUE, err |-> Nil]
                 ELSE OverlapsFrom(cidrList, newNet, k + 1)

\* cidr.IsOverlapping(cidrList, cidr) of github.com/submariner-io/submariner.
IsOverlapping(cidrList, cidr) ==
    LET new == ParseCIDR(cidr)
    IN IF new.err # Nil THEN [overlap |-> FALSE, err |-> new.err]
       ELSE OverlapsFrom(cidrList, new.net, 1)

\* ------------------------------------------------------- cmd: cli.Status
\* The report: the Status object (the step in progress and the messages
\* queued for it), and a log of every message queued during the run, each
\* with the place in checkOverlappingCIDRs' loops that queued it (source,
\* dest and subnet index; zeros elsewhere).

NewReport ==
    [active |-> FALSE, failureQueue |-> <<>>, warningQueue |-> <<>>, successQueue |-> <<>>,
     log |-> <<>>]

Nowhere == <<0, 0, 0>>

Logged(severity, msg, at) == [severity |-> severity, msg |-> msg, at |-> at]

\* status.End: prints the step and its queued messages, and empties the queues.
StatusEnd(R) ==
    IF ~R.active THEN R
    ELSE [R EXCEPT !.active = FALSE, !.failureQueue = <<>>, !.warningQueue = <<>>,
                   !.successQueue = <<>>]

\* status.Start: ends the step in progress and starts the next.
StatusStart(R) == [StatusEnd(R) EXCEPT !.active = TRUE]

QueueFailureMessage(R, msg, at) ==
    [R EXCEPT !.failureQueue = Append(@, msg), !.log = Append(@, Logged("failure", msg, at))]

QueueWarningMessage(R, msg) ==
    [R EXCEPT !.warningQueue = Append(@, msg), !.log = Append(@, Logged("warning", msg, Nowhere))]

QueueSuccessMessage(R, msg) ==
    [R EXCEPT !.successQueue = Append(@, msg), !.log = Append(@, Logged("success", msg, Nowhere))]

HasFailureMessages(R) == R.failureQueue # <<>>

\* A message: what it says (kind) about what (args).
Msg(kind, args) == [kind |-> kind, args |-> args]

\* ----------------------------------------- cmd: checkOverlappingCIDRs

\* The result of a check: what it returns, the report and the pairs of
\* endpoints evaluated so far.
Checked(ok, R, pairs) == [ok |-> ok, R |-> R, pairs |-> pairs]

SubnetLoopBreaking(source, dest, i, j, k, R) ==
    LET RECURSIVE Go(_, _)
        Go(kk, RR) ==
            IF kk > Len(dest.Subnets) THEN RR
            ELSE LET subnet == dest.Subnets[kk]
                     o == IsOverlapping(source.Subnets, subnet)
                 IN IF o.err # Nil
                    THEN Go(kk + 1, QueueFailureMessage(RR,
                             Msg("ErrorParsingCIDR", <<dest.ClusterID>>), <<i, j, kk>>))
                    ELSE IF o.overlap
                         THEN QueueFailureMessage(RR,
                                  Msg("Overlap", <<subnet, dest.ClusterID, source.ClusterID,
                                                   source.Subnets>>), <<i, j, kk>>)
                         ELSE Go(kk + 1, RR)
    IN Go(k, R)

SubnetLoopStoppingAtMiss(source, dest, i, j, k, R) ==
    LET RECURSIVE Go(_, _)
        Go(kk, RR) ==
            IF kk > Len(dest.Subnets) THEN RR
            ELSE LET subnet == dest.Subnets[kk]
                     o == IsOverlapping(source.Subnets, subnet)
                 IN IF o.err # Nil
                    THEN Go(kk + 1, QueueFailureMessage(RR,
                             Msg("ErrorParsingCIDR", <<dest.ClusterID>>), <<i, j, kk>>))
                    ELSE IF o.overlap
                         THEN Go(kk + 1, QueueFailureMessage(RR,
                                  Msg("Overlap", <<subnet, dest.ClusterID, source.ClusterID,
                                                   source.Subnets>>), <<i, j, kk>>))
                         ELSE RR
    IN Go(k, R)

SubnetLoopBreakingOnError(source, dest, i, j, k, R) ==
    LET RECURSIVE Go(_, _)
        Go(kk, RR) ==
            IF kk > Len(dest.Subnets) THEN RR
            ELSE LET subnet == dest.Subnets[kk]
                     o == IsOverlapping(source.Subnets, subnet)
                 IN IF o.err # Nil
                    THEN QueueFailureMessage(RR,
                             Msg("ErrorParsingCIDR", <<dest.ClusterID>>), <<i, j, kk>>)
                    ELSE IF o.overlap
                         THEN Go(kk + 1, QueueFailureMessage(RR,
                                  Msg("Overlap", <<subnet, dest.ClusterID, source.ClusterID,
                                                   source.Subnets>>), <<i, j, kk>>))
                         ELSE Go(kk + 1, RR)
    IN Go(k, R)

\* The loop over dest.Spec.Subnets, from the k-th subnet on.
RECURSIVE SubnetLoop(_, _, _, _, _, _)
SubnetLoop(source, dest, i, j, k, R) ==
    IF k > Len(dest.Subnets) THEN R
    ELSE LET subnet == dest.Subnets[k]
             o == IsOverlapping(source.Subnets, subnet)
         IN IF o.err # Nil
            THEN SubnetLoop(source, dest, i, j, k + 1,
                     QueueFailureMessage(R, Msg("ErrorParsingCIDR", <<dest.ClusterID>>),
                                         <<i, j, k>>))
            ELSE IF o.overlap
                 THEN SubnetLoop(source, dest, i, j, k + 1,
                          QueueFailureMessage(R,
                              Msg("Overlap", <<subnet, dest.ClusterID, source.ClusterID,
                                               source.Subnets>>), <<i, j, k>>))
                 ELSE SubnetLoop(source, dest, i, j, k + 1, R)

PairBodyFallingThrough(source, dest, i, j, R) ==
    IF source.ClusterID = dest.ClusterID
    THEN SubnetLoop(source, dest, i, j, 1,
             QueueFailureMessage(R,
                 Msg("MultipleEndpoints", <<source.Name, dest.Name, source.ClusterID>>),
                 <<i, j, 0>>))
    ELSE SubnetLoop(source, dest, i, j, 1, R)

\* The body of the inner loop, for the pair (source, dest) = (Items[i], Items[j]).
PairBody(source, dest, i, j, R) ==
    IF source.ClusterID = dest.ClusterID
    THEN QueueFailureMessage(R,
             Msg("MultipleEndpoints", <<source.Name, dest.Name, source.ClusterID>>),
             <<i, j, 0>>)
    ELSE SubnetLoop(source, dest, i, j, 1, R)

\* The two loops stopping at the first pair that queued a failure.
RECURSIVE PairLoopsFailFast(_, _, _, _)
PairLoopsFailFast(Items, i, j, c) ==
    IF i > Len(Items) \/ HasFailureMessages(c.R) THEN c
    ELSE IF j > Len(Items) THEN PairLoopsFailFast(Items, i + 1, i + 2, c)
         ELSE PairLoopsFailFast(Items, i, j + 1,
                  Checked(c.ok, PairBody(Items[i], Items[j], i, j, c.R),
                          Append(c.pairs, <<i, j>>)))

\* The two loops: source = Items[i], dest ranging over Items[i+1:], from
\* the pair (i, j) on.
RECURSIVE PairLoops(_, _, _, _)
PairLoops(Items, i, j, c) ==
    IF i > Len(Items) THEN c
    ELSE IF j > Len(Items) THEN PairLoops(Items, i + 1, i + 2, c)
         ELSE PairLoops(Items, i, j + 1,
                  Checked(c.ok, PairBody(Items[i], Items[j], i, j, c.R),
                          Append(c.pairs, <<i, j>>)))

checkOverlappingCIDRsUnconditional(cluster, R) ==
    LET started == StatusStart(R)
        submariner == cluster.submariner
    IN IF cluster.endpoints.err
       THEN Checked(FALSE,
                StatusEnd(QueueFailureMessage(started,
                    Msg("ErrorListingEndpoints", <<submariner.ClusterID>>), Nowhere)),
                <<>>)
       ELSE LET c == PairLoops(cluster.endpoints.Items, 1, 2, Checked(TRUE, started, <<>>))
            IN Checked(TRUE,
                   StatusEnd(QueueSuccessMessage(c.R,
                       Msg(IF submariner.GlobalCIDR # ""
                           THEN "NoOverlappingGlobalnetCIDRs" ELSE "NoOverlappingCIDRs",
                           <<>>))),
                   c.pairs)

\* checkOverlappingCIDRs(item, submariner) on the report R.
checkOverlappingCIDRs(cluster, R) ==
    LET started == StatusStart(R)
        submariner == cluster.submariner
    IN IF cluster.endpoints.err
       THEN Checked(FALSE,
                StatusEnd(QueueFailureMessage(started,
                    Msg("ErrorListingEndpoints", <<submariner.ClusterID>>), Nowhere)),
                <<>>)
       ELSE LET c == PairLoops(cluster.endpoints.Items, 1, 2, Checked(TRUE, started, <<>>))
            IN IF HasFailureMessages(c.R)
               THEN Checked(FALSE, StatusEnd(c.R), c.pairs)
               ELSE Checked(TRUE,
                        StatusEnd(QueueSuccessMessage(c.R,
                            Msg(IF submariner.GlobalCIDR # ""
                                THEN "NoOverlappingGlobalnetCIDRs" ELSE "NoOverlappingCIDRs",
                                <<>>))),
                        c.pairs)

\* ----------------------------------------------------- cmd: checkPods

\* The restart count from which a container is reported.
RestartWarning == 5

\* CheckDaemonset: [ok, R]
CheckDaemonset(cluster, daemonSetName, R) ==
    LET daemonSet == cluster.daemonSets[daemonSetName]
    IN IF ~daemonSet.found
       THEN [ok |-> FALSE,
             R |-> StatusEnd(QueueFailureMessage(R,
                       Msg("ErrorObtainingDaemonset", <<daemonSetName>>), Nowhere))]
       ELSE IF daemonSet.CurrentNumberScheduled # daemonSet.DesiredNumberScheduled
            THEN [ok |-> FALSE,
                  R |-> StatusEnd(QueueFailureMessage(R,
                            Msg("DaemonSetMismatch",
                                <<daemonSetName, daemonSet.DesiredNumberScheduled,
                                  daemonSet.CurrentNumberScheduled>>), Nowhere))]
            ELSE [ok |-> TRUE, R |-> R]

\* CheckDeployment: Replicas is 0 - 1 for a nil Spec.Replicas.
CheckDeployment(cluster, deploymentName, R) ==
    LET deployment == cluster.deployments[deploymentName]
        replicas == IF deployment.Replicas # 0 - 1 THEN deployment.Replicas ELSE 1
    IN IF ~deployment.found
       THEN [ok |-> FALSE,
             R |-> StatusEnd(QueueFailureMessage(R,
                       Msg("ErrorObtainingDeployment", <<deploymentName>>), Nowhere))]
       ELSE IF deployment.AvailableReplicas # replicas
            THEN [ok |-> FALSE,
                  R |-> StatusEnd(QueueFailureMessage(R,
                            Msg("DeploymentMismatch",
                                <<deploymentName, replicas, deployment.AvailableReplicas>>),
                            Nowhere))]
            ELSE [ok |-> TRUE, R |-> R]

\* The loop over pod.Status.ContainerStatuses, from the k-th on.
RECURSIVE ContainerLoop(_, _, _)
ContainerLoop(pod, k, R) ==
    IF k > Len(pod.RestartCounts) THEN R
    ELSE ContainerLoop(pod, k + 1,
             IF pod.RestartCounts[k] >= RestartWarning
             THEN QueueWarningMessage(R, Msg("PodRestarted", <<pod.Name, pod.RestartCounts[k]>>))
             ELSE R)

PodLoopFailingOnRestarts(Items, k, R) ==
    LET RECURSIVE Go(_, _)
        Go(kk, RR) ==
            IF kk > Len(Items) THEN [ok |-> TRUE, R |-> RR]
            ELSE IF Items[kk].Phase # "Running"
                 THEN [ok |-> FALSE,
                       R |-> StatusEnd(QueueFailureMessage(RR,
                                 Msg("PodNotRunning", <<Items[kk].Name, Items[kk].Phase>>),
                                 Nowhere))]
                 ELSE IF \E n \in 1..Len(Items[kk].RestartCounts) :
                            Items[kk].RestartCounts[n] >= RestartWarning
                      THEN [ok |-> FALSE, R |-> StatusEnd(ContainerLoop(Items[kk], 1, RR))]
                      ELSE Go(kk + 1, ContainerLoop(Items[kk], 1, RR))
    IN Go(k, R)

\* The loop over pods.Items, from the k-th pod on.
RECURSIVE PodLoop(_, _, _)
PodLoop(Items, k, R) ==
    IF k > Len(Items) THEN [ok |-> TRUE, R |-> R]
    ELSE IF Items[k].Phase # "Running"
         THEN [ok |-> FALSE,
               R |-> StatusEnd(QueueFailureMessage(R,
                         Msg("PodNotRunning", <<Items[k].Name, Items[k].Phase>>), Nowhere))]
         ELSE PodLoop(Items, k + 1, ContainerLoop(Items[k], 1, R))

checkPodsStatus(cluster, R) ==
    IF cluster.pods.err
    THEN [ok |-> FALSE,
          R |-> StatusEnd(QueueFailureMessage(R, Msg("ErrorObtainingPods", <<>>), Nowhere))]
    ELSE PodLoop(cluster.pods.Items, 1, R)

\* checkPods(item, submariner, OperatorNamespace): [ok, R]
checkPods(cluster, R) ==
    LET submariner == cluster.submariner
        gateway == CheckDaemonset(cluster, "submariner-gateway", StatusStart(R))
        routeagent == CheckDaemonset(cluster, "submariner-routeagent", gateway.R)
        agent == CheckDeployment(cluster, "submariner-lighthouse-agent", routeagent.R)
        coredns == CheckDeployment(cluster, "submariner-lighthouse-coredns", agent.R)
        discovery == IF submariner.ServiceDiscoveryEnabled THEN coredns ELSE routeagent
        globalnet == CheckDaemonset(cluster, "submariner-globalnet", discovery.R)
        components == IF submariner.GlobalCIDR # "" THEN globalnet ELSE discovery
        pods == checkPodsStatus(cluster, components.R)
    IN IF ~gateway.ok THEN gateway
       ELSE IF ~routeagent.ok THEN routeagent
       ELSE IF submariner.ServiceDiscoveryEnabled /\ ~agent.ok THEN agent
       ELSE IF submariner.ServiceDiscoveryEnabled /\ ~coredns.ok THEN coredns
       ELSE IF submariner.GlobalCIDR # "" /\ ~globalnet.ok THEN globalnet
       ELSE IF ~pods.ok THEN pods
       ELSE [ok |-> TRUE,
             R |-> StatusEnd(QueueSuccessMessage(pods.R, Msg("AllPodsRunning", <<>>)))]

\* ------------------------------------- cmd: validateSubmarinerDeployment
VARIABLES
    stored,     \* the ConfigMap "submariner-globalnet-info" held by the API server
    configMap,  \* per caller: the *v1.ConfigMap it holds (from GetGlobalnetConfigMap)
    last,       \* the last call of package broker: who called what, and the error returned
    upserts     \* history: the newCluster of every accepted upsert, while recorded (on)

brokerVars == <<stored, configMap, last, upserts>>

VARIABLES
    configs,           \* the restConfig items, each with the state of its cluster
    idx,               \* the item the range loop is at
    pc,                \* the statement the run is at
    validationStatus,
    report,            \* the Status object and the log of its messages
    calls,             \* the checks called so far: <<item, function>>
    pairs,             \* the endpoint pairs the last overlap check evaluated
    exitCode           \* 0 - 1 while the run goes on

cmdVars == <<configs, idx, pc, validationStatus, report, calls, pairs, exitCode>>

\* No run of the command.
CmdIdle ==
    /\ configs = <<>>
    /\ idx = 1
    /\ pc = "idle"
    /\ validationStatus = TRUE
    /\ report = NewReport
    /\ calls = <<>>
    /\ pairs = <<>>
    /\ exitCode = 0 - 1

\* The run at the start of the range loop over configs.
CmdStart(c) ==
    /\ configs = c
    /\ idx = 1
    /\ pc = "retrieve"
    /\ validationStatus = TRUE
    /\ report = NewReport
    /\ calls = <<>>
    /\ pairs = <<>>
    /\ exitCode = 0 - 1

\* The head of the loop body: getSubmarinerResource, and the continue when
\* the cluster has no Submariner resource.
Retrieve ==
    /\ pc = "retrieve"
    /\ idx <= Len(configs)
    /\ LET started == StatusStart(report)
       IN IF ~configs[idx].submariner.present
          THEN /\ report' = StatusEnd(QueueWarningMessage(started, Msg("SubmMissing", <<>>)))
               /\ idx' = idx + 1
               /\ pc' = "retrieve"
          ELSE /\ report' = StatusEnd(started)
               /\ idx' = idx
               /\ pc' = "checkPods"
    /\ UNCHANGED <<configs, validationStatus, calls, pairs, exitCode, brokerVars>>

\* validationStatus = validationStatus && checkPods(...): Go evaluates the
\* right operand of && only when the left one is true.
CheckPodsStep ==
    /\ pc = "checkPods"
    /\ IF validationStatus
       THEN \E r \in {checkPods(configs[idx], report)} :
               /\ validationStatus' = r.ok
               /\ report' = r.R
               /\ calls' = Append(calls, <<idx, "checkPods">>)
       ELSE UNCHANGED <<validationStatus, report, calls>>
    /\ pc' = "checkOverlappingCIDRs"
    /\ UNCHANGED <<configs, idx, pairs, exitCode, brokerVars>>

CheckOverlappingCIDRsStepOverwriting ==
    /\ pc = "checkOverlappingCIDRs"
    /\ \E c \in {checkOverlappingCIDRs(configs[idx], report)} :
           /\ validationStatus' = c.ok
           /\ report' = c.R
           /\ pairs' = c.pairs
           /\ calls' = Append(calls, <<idx, "checkOverlappingCIDRs">>)
    /\ idx' = idx + 1
    /\ pc' = "retrieve"
    /\ UNCHANGED <<configs, exitCode, brokerVars>>

\* validationStatus = validationStatus && checkOverlappingCIDRs(...), and
\* the end of the loop body.
CheckOverlappingCIDRsStep ==
    /\ pc = "checkOverlappingCIDRs"
    /\ IF validationStatus
       THEN \E c \in {checkOverlappingCIDRs(configs[idx], report)} :
               /\ validationStatus' = c.ok
               /\ report' = c.R
               /\ pairs' = c.pairs
               /\ calls' = Append(calls, <<idx, "checkOverlappingCIDRs">>)
       ELSE UNCHANGED <<validationStatus, report, calls, pairs>>
    /\ idx' = idx + 1
    /\ pc' = "retrieve"
    /\ UNCHANGED <<configs, exitCode, brokerVars>>

\* After the loop: os.Exit(1) unless validationStatus, else the return.
Exit ==
    /\ pc = "retrieve"
    /\ idx > Len(configs)
    /\ exitCode' = IF ~validationStatus THEN 1 ELSE 0
    /\ pc' = "done"
    /\ UNCHANGED <<configs, idx, validationStatus, report, calls, pairs, brokerVars>>

\* ------------------------------------------------- cmd: the clusters

EndpointNames == <<"ep1", "ep2", "ep3", "ep4", "ep5">>

ClusterIDSeq == <<"A", "B", "C", "D", "E">>

ClusterNames == <<"cluster1", "cluster2", "cluster3", "cluster4">>

Net24 == CIDR(<<10, 0, 0, 0>>, 24)

Net25 == CIDR(<<10, 0, 0, 0>>, 25)

\* 10.0.0.129/25: an address inside the upper half of Net24.
Host25 == CIDR(<<10, 0, 0, 129>>, 25)

Net16 == CIDR(<<10, 0, 0, 0>>, 16)

Other24 == CIDR(<<10, 1, 0, 0>>, 24)

\* fd00::/8
Net6 == CIDR(<<253, 0, 0, 0, 0, 0, 0, 0, 0, 0, 0, 0, 0, 0, 0, 0>>, 8)

\* The Spec.Subnets an endpoint may have.
SubnetLists ==
    {<<>>, <<Net24>>, <<Net25>>, <<Other24>>, <<Host25, Net25>>, <<Net16, NotACIDR>>, <<Net6>>,
     <<NotACIDR, Net24>>}

\* The ways n endpoints share cluster IDs: the first is in cluster 1, each
\* later one in a cluster seen before or in the next new one.
RECURSIVE Sharings(_)
Sharings(n) ==
    IF n = 0 THEN {<<>>}
    ELSE UNION {{Append(p, c) : c \in 1..(Len(p) + 1)} : p \in Sharings(n - 1)}

RestrictedGrowth(p) ==
    \A k \in 1..Len(p) : \A c \in 1..(p[k] - 1) : \E m \in 1..(k - 1) : p[m] = c

\* The endpoint lists of n endpoints.
EndpointLists(n) ==
    {[k \in 1..n |-> [Name |-> EndpointNames[k], ClusterID |-> ClusterIDSeq[p[k]],
                      Subnets |-> f[k]]] :
        p \in {q \in Sharings(n) : RestrictedGrowth(q)}, f \in [1..n -> SubnetLists]}

Resource(desired, current) ==
    [found |-> TRUE, DesiredNumberScheduled |-> desired, CurrentNumberScheduled |-> current]

Deployment(replicas, available) ==
    [found |-> TRUE, Replicas |-> replicas, AvailableReplicas |-> available]

Pod(name, phase, restarts) == [Name |-> name, Phase |-> phase, RestartCounts |-> restarts]

\* A cluster where every check passes: all components as desired, and
\* endpoints of two clusters whose subnets are apart.
Healthy(name) ==
    [clusterName |-> name,
     submariner |-> [present |-> TRUE, GlobalCIDR |-> "", ServiceDiscoveryEnabled |-> FALSE,
                     ClusterID |-> name],
     daemonSets |-> [n \in {"submariner-gateway", "submariner-routeagent",
                            "submariner-globalnet"} |-> Resource(1, 1)],
     deployments |-> [n \in {"submariner-lighthouse-agent", "submariner-lighthouse-coredns"}
                          |-> Deployment(0 - 1, 1)],
     pods |-> [err |-> FALSE,
               Items |-> <<Pod("submariner-gateway-1", "Running", <<0>>),
                           Pod("submariner-routeagent-1", "Running", <<0, 1>>)>>],
     endpoints |-> [err |-> FALSE,
                    Items |-> <<[Name |-> "ep1", ClusterID |-> "A", Subnets |-> <<Net24>>],
                                [Name |-> "ep2", ClusterID |-> "B", Subnets |-> <<Other24>>]>>]]

\* The states of the components checkPods looks at.
Components(name) ==
    LET h == Healthy(name)
    IN {h,
        [h EXCEPT !.daemonSets["submariner-gateway"] = Resource(2, 1)],
        [h EXCEPT !.daemonSets["submariner-routeagent"].found = FALSE],
        [h EXCEPT !.submariner.ServiceDiscoveryEnabled = TRUE,
                  !.deployments["submariner-lighthouse-coredns"] = Deployment(2, 1)],
        [h EXCEPT !.submariner.GlobalCIDR = "169.254.0.0/16"],
        [h EXCEPT !.pods.Items[2].Phase = "Pending"],
        [h EXCEPT !.pods.Items[2].RestartCounts = <<0, 5>>],
        [h EXCEPT !.pods.err = TRUE]}

\* The answers to the listing of the endpoints.
Endpoints ==
    {[err |-> FALSE, Items |-> <<[Name |-> "ep1", ClusterID |-> "A", Subnets |-> <<Net24>>],
                                 [Name |-> "ep2", ClusterID |-> "B", Subnets |-> <<Other24>>]>>],
     [err |-> FALSE, Items |-> <<[Name |-> "ep1", ClusterID |-> "A", Subnets |-> <<Net24>>],
                                 [Name |-> "ep2", ClusterID |-> "B", Subnets |-> <<Net25>>]>>],
     [err |-> TRUE, Items |-> <<>>]}

\* The clusters a context may point at.
Clusters(name) ==
    {[c EXCEPT !.endpoints = e] : c \in Components(name), e \in Endpoints}
        \cup {[Healthy(name) EXCEPT !.submariner.present = FALSE]}

\* The configs of n contexts.
Configs(n) ==
    {c \in [1..n -> UNION {Clusters(ClusterNames[k]) : k \in 1..n}] :
        \A k \in 1..n : c[k].clusterName = ClusterNames[k]}

\* ----------------------------------------------------- broker: the store
\* Data[key] of a Go map: the empty string when the key is absent.
DataGet(Data, key) == IF key \in DOMAIN Data THEN Data[key] ELSE <<>>

\* Data[key] = value
DataSet(Data, key, value) ==
    [k \in DOMAIN Data \cup {key} |-> IF k = key THEN value ELSE Data[k]]

\* ConfigMaps(namespace).Create: the server refuses a second object of the
\* same name, else stores the object under a first resourceVersion.
StoreCreate(cur, obj) ==
    IF cur.present THEN [err |-> ErrAlreadyExists, stored |-> cur]
    ELSE [err |-> Nil,
          stored |-> [present |-> TRUE, resourceVersion |-> 1, Data |-> obj.Data]]

\* ConfigMaps(namespace).Update: a PUT of the whole object, which carries the
\* metadata.resourceVersion the object was read with. The server replaces
\* the stored object; it answers Conflict when the object names a
\* resourceVersion that is no longer the stored one (an object without one
\* is replaced unconditionally), and leaves the resourceVersion alone when
\* nothing changes.
StoreUpdate(cur, obj) ==
    IF ~cur.present THEN [err |-> ErrNotFound, stored |-> cur]
    ELSE IF obj.resourceVersion # 0 /\ obj.resourceVersion # cur.resourceVersion
         THEN [err |-> ErrConflict, stored |-> cur]
         ELSE IF obj.Data = cur.Data THEN [err |-> Nil, stored |-> cur]
              ELSE [err |-> Nil,
                    stored |-> [present |-> TRUE,
                                resourceVersion |-> cur.resourceVersion + 1,
                                Data |-> obj.Data]]

\* ConfigMaps(namespace).Get
StoreGet(cur) ==
    IF cur.present THEN [err |-> Nil, cm |-> cur] ELSE [err |-> ErrNotFound, cm |-> NoConfigMap]

\* ------------------------------------------------- broker: the functions

NewGlobalnetConfigMapAlwaysEnabled(globalnetEnabled, defaultGlobalCidrRange, defaultGlobalClusterSize) ==
    [present |-> TRUE,
     resourceVersion |-> 0,
     Data |-> IF globalnetEnabled
              THEN [globalnetEnabled |-> "true",
                    globalnetCidrRange |-> MarshalString(defaultGlobalCidrRange),
                    globalnetClusterSize |-> Sprint(defaultGlobalClusterSize),
                    clusterinfo |-> <<LBracket, RBracket>>]
              ELSE [globalnetEnabled |-> "true",
                    clusterinfo |-> <<LBracket, RBracket>>]]

\* NewGlobalnetConfigMap: the object to create (no resourceVersion yet).
NewGlobalnetConfigMap(globalnetEnabled, defaultGlobalCidrRange, defaultGlobalClusterSize) ==
    [present |-> TRUE,
     resourceVersion |-> 0,
     Data |-> IF globalnetEnabled
              THEN [globalnetEnabled |-> "true",
                    globalnetCidrRange |-> MarshalString(defaultGlobalCidrRange),
                    globalnetClusterSize |-> Sprint(defaultGlobalClusterSize),
                    clusterinfo |-> <<LBracket, RBracket>>]
              ELSE [globalnetEnabled |-> "false",
                    clusterinfo |-> <<LBracket, RBracket>>]]

CreateResultStrict(err) == err

\* The error CreateGlobalnetConfigMap returns for the error of Create.
CreateResult(err) == IF err = Nil \/ err = ErrAlreadyExists THEN Nil ELSE err

UpdateExistingKeeping(clusterInfo, newCluster) == clusterInfo

UpdateExistingAppending(clusterInfo, newCluster) ==
    [k \in 1..Len(clusterInfo) |->
        IF clusterInfo[k].ClusterID = newCluster.ClusterID
        THEN [clusterInfo[k] EXCEPT !.GlobalCidr = @ \o newCluster.GlobalCidr]
        ELSE clusterInfo[k]]

\* The range loop of UpdateGlobalnetConfigMap: every entry of the cluster
\* gets the new GlobalCidr, in place.
UpdateExisting(clusterInfo, newCluster) ==
    [k \in 1..Len(clusterInfo) |->
        IF clusterInfo[k].ClusterID = newCluster.ClusterID
        THEN [clusterInfo[k] EXCEPT !.GlobalCidr = newCluster.GlobalCidr]
        ELSE clusterInfo[k]]

ExistsNever(clusterInfo, newCluster) == FALSE

\* exists, after the range loop.
Exists(clusterInfo, newCluster) ==
    \E k \in 1..Len(clusterInfo) : clusterInfo[k].ClusterID = newCluster.ClusterID

UpsertPrepending(clusterInfo, newCluster) ==
    IF \E k \in 1..Len(clusterInfo) : clusterInfo[k].ClusterID = newCluster.ClusterID
    THEN [k \in 1..Len(clusterInfo) |->
            IF clusterInfo[k].ClusterID = newCluster.ClusterID
            THEN [clusterInfo[k] EXCEPT !.GlobalCidr = newCluster.GlobalCidr]
            ELSE clusterInfo[k]]
    ELSE <<[ClusterID |-> newCluster.ClusterID, GlobalCidr |-> newCluster.GlobalCidr]>>
             \o clusterInfo

\* The merge of UpdateGlobalnetConfigMap: update in place, else append.
Upsert(clusterInfo, newCluster) ==
    IF Exists(clusterInfo, newCluster)
    THEN UpdateExisting(clusterInfo, newCluster)
    ELSE Append(UpdateExisting(clusterInfo, newCluster),
                [ClusterID |-> newCluster.ClusterID, GlobalCidr |-> newCluster.GlobalCidr])

UpdateRequestUnversioned(cm, data) ==
    [cm EXCEPT !.resourceVersion = 0, !.Data = DataSet(cm.Data, ClusterInfoKey, data)]

UpdateRequestDataOnly(cm, data) == [cm EXCEPT !.Data = (ClusterInfoKey :> data)]

\* The object UpdateGlobalnetConfigMap hands to Update: the caller's
\* configMap itself (resourceVersion and all), with the new clusterinfo.
UpdateRequest(cm, data) == [cm EXCEPT !.Data = DataSet(cm.Data, ClusterInfoKey, data)]

\* A call: storeErr is the error of its request to the API server, err the
\* error the function returned.
Call(w, op, newCluster, storeErr, err) ==
    [w |-> w, op |-> op, newCluster |-> newCluster, storeErr |-> storeErr, err |-> err]

\* storeErr of a call that sent no request.
NotCalled == "NotCalled"

\* The newCluster of a call that takes none.
NoCluster == [ClusterID |-> "", GlobalCidr |-> <<>>]

NewClusters == [ClusterID : ClusterIDs, GlobalCidr : GlobalCidrLists]

\* The history: not recorded, or the upserts accepted so far.
NotRecorded == [on |-> FALSE, seq |-> <<>>]

\* The history after a call with newCluster whose Update returned err.
Recorded(h, newCluster, err) ==
    IF h.on /\ err = Nil THEN [h EXCEPT !.seq = Append(@, newCluster)] ELSE h

\* No call of package broker.
BrokerIdle ==
    /\ stored = NoConfigMap
    /\ configMap = [w \in Writers |-> NoConfigMap]
    /\ last = Call("w1", "none", NoCluster, NotCalled, Nil)
    /\ upserts = NotRecorded

BrokerInit == CmdIdle /\ BrokerIdle

\* CreateGlobalnetConfigMap; fail: Create fails for a reason other than
\* the object existing already (the connection, the permissions).
CreateGlobalnetConfigMap(w, globalnetEnabled, range, size, fail) ==
    LET gnConfigMap == NewGlobalnetConfigMap(globalnetEnabled, range, size)
        r == IF fail THEN [err |-> ErrStore, stored |-> stored]
             ELSE StoreCreate(stored, gnConfigMap)
    IN /\ stored' = r.stored
       /\ last' = Call(w, "Create", NoCluster, r.err, CreateResult(r.err))
       /\ UNCHANGED <<configMap, upserts, cmdVars>>

\* GetGlobalnetConfigMap: the caller holds what it returns.
GetGlobalnetConfigMap(w, fail) ==
    LET r == IF fail THEN [err |-> ErrStore, cm |-> NoConfigMap] ELSE StoreGet(stored)
    IN /\ configMap' = [configMap EXCEPT ![w] = r.cm]
       /\ last' = Call(w, "Get", NoCluster, r.err, r.err)
       /\ UNCHANGED <<stored, upserts, cmdVars>>

UpdateGlobalnetConfigMapOnCopy(w, newCluster, fail) ==
    /\ configMap[w].present
    /\ UNCHANGED cmdVars
    /\ \E u \in {Unmarshal(DataGet(configMap[w].Data, ClusterInfoKey))} :
        IF u.err # Nil
        THEN /\ last' = Call(w, "Update", newCluster, NotCalled, u.err)
             /\ UNCHANGED <<stored, configMap, upserts>>
        ELSE \E req \in {UpdateRequest(configMap[w],
                                       MarshalIndent(Upsert(u.clusterInfo, newCluster)))} :
             \E r \in {IF fail THEN [err |-> ErrStore, stored |-> stored]
                       ELSE StoreUpdate(stored, req)} :
               /\ r.stored.resourceVersion <= MaxVersion
               /\ configMap' = configMap
               /\ stored' = r.stored
               /\ last' = Call(w, "Update", newCluster, r.err, r.err)
               /\ upserts' = Recorded(upserts, newCluster, r.err)

\* UpdateGlobalnetConfigMap on the object the caller holds. Go evaluates
\* each of u, req and r once, hence the one-element sets.
UpdateGlobalnetConfigMap(w, newCluster, fail) ==
    /\ configMap[w].present
    /\ UNCHANGED cmdVars
    /\ \E u \in {Unmarshal(DataGet(configMap[w].Data, ClusterInfoKey))} :
        IF u.err # Nil
        THEN /\ last' = Call(w, "Update", newCluster, NotCalled, u.err)
             /\ UNCHANGED <<stored, configMap, upserts>>
        ELSE \E req \in {UpdateRequest(configMap[w],
                                       MarshalIndent(Upsert(u.clusterInfo, newCluster)))} :
             \E r \in {IF fail THEN [err |-> ErrStore, stored |-> stored]
                       ELSE StoreUpdate(stored, req)} :
               /\ r.stored.resourceVersion <= MaxVersion
               /\ configMap' = [configMap EXCEPT ![w].Data = req.Data]
               /\ stored' = r.stored
               /\ last' = Call(w, "Update", newCluster, r.err, r.err)
               /\ upserts' = Recorded(upserts, newCluster, r.err)

\* The calls the callers ws make, with newCluster among ncs.
BrokerNext(ws, ncs) ==
    \/ \E w \in ws, e \in BOOLEAN, r \in CidrRanges, s \in ClusterSizes, fail \in BOOLEAN :
           CreateGlobalnetConfigMap(w, e, r, s, fail)
    \/ \E w \in ws, fail \in BOOLEAN : GetGlobalnetConfigMap(w, fail)
    \/ \E w \in ws, nc \in ncs, fail \in BOOLEAN : UpdateGlobalnetConfigMap(w, nc, fail)

vars == <<stored, configMap, last, upserts, configs, idx, pc, validationStatus, report, calls, pairs,
         exitCode>>

Init == BrokerInit

\* One caller at a time: every call follows the return of the one before.
Next == BrokerNext({"w1"}, SequentialClusters)

Spec == Init /\ [][Next]_vars

\* Two callers, whose calls interleave.
NextConcurrent == BrokerNext(Writers, ConcurrentClusters)

SpecConcurrent == Init /\ [][NextConcurrent]_vars

\* ---- the merge alone: one call on any record the callers can have written

\* The lists of n allocations of distinct clusters among ids.
RECURSIVE AllocationLists(_, _)
AllocationLists(ids, n) ==
    IF n = 0 THEN {<<>>}
    ELSE UNION {{<<[ClusterID |-> id, GlobalCidr |-> c]>> \o l :
                    c \in GlobalCidrLists, l \in AllocationLists(ids \ {id}, n - 1)} :
                id \in ids}

\* The record after the allocations l were written to a new ConfigMap.
Written(globalnetEnabled, range, size, l) ==
    LET new == NewGlobalnetConfigMap(globalnetEnabled, range, size)
    IN [present |-> TRUE,
        resourceVersion |-> Len(l) + 1,
        Data |-> IF l = <<>> THEN new.Data
                 ELSE DataSet(new.Data, ClusterInfoKey, MarshalIndent(l))]

\* Texts json.Unmarshal does not decode into a []ClusterInfo: the empty
\* text, a cut-off array, an object, a string, and an entry whose
\* global_cidr is a string.
CorruptTexts ==
    {<<>>,
     <<LBracket>>,
     <<LBrace, RBrace>>,
     <<Str("A")>>,
     <<LBracket, LBrace, Key("cluster_id"), Str("A"), Key("global_cidr"),
       Str("169.254.0.0/19"), RBrace, RBracket>>}

\* A record whose clusterinfo was overwritten with text (by hand, or by
\* another program).
Corrupted(globalnetEnabled, range, size, text) ==
    [present |-> TRUE,
     resourceVersion |-> 2,
     Data |-> DataSet(NewGlobalnetConfigMap(globalnetEnabled, range, size).Data,
                      ClusterInfoKey, text)]

InitUpsert ==
    \E e \in BOOLEAN, r \in CidrRanges, s \in ClusterSizes :
    \E rec \in {Written(e, r, s, l) :
                    l \in UNION {AllocationLists(ClusterIDs, n) : n \in 0..MaxAllocations}}
                \cup {Corrupted(e, r, s, text) : text \in CorruptTexts} :
        /\ CmdIdle
        /\ stored = rec
        /\ configMap = [w \in Writers |-> IF w = "w1" THEN stored ELSE NoConfigMap]
        /\ last = Call("w1", "Get", NoCluster, Nil, Nil)
        /\ upserts = NotRecorded

\* A first call, then repeats of the same call on the same object.
NextUpsert ==
    \E nc \in NewClusters, fail \in BOOLEAN :
        /\ last.op = "Get" \/ (last.op = "Update" /\ last.newCluster = nc)
        /\ UpdateGlobalnetConfigMap("w1", nc, fail)

SpecUpsert == InitUpsert /\ [][NextUpsert]_vars

\* ---- one caller at a time, with the history of the accepted upserts

InitSequence ==
    /\ CmdIdle
    /\ stored = NoConfigMap
    /\ configMap = [w \in Writers |-> NoConfigMap]
    /\ last = Call("w1", "none", NoCluster, NotCalled, Nil)
    /\ upserts = [on |-> TRUE, seq |-> <<>>]

\* Every upsert is a fetch followed by UpdateGlobalnetConfigMap on the
\* record fetched.
NextSequence ==
    /\ Len(upserts.seq) < MaxUpserts
    /\ \/ \E e \in BOOLEAN, r \in CidrRanges, s \in ClusterSizes, fail \in BOOLEAN :
              CreateGlobalnetConfigMap("w1", e, r, s, fail)
       \/ \E fail \in BOOLEAN : GetGlobalnetConfigMap("w1", fail)
       \/ \E nc \in SequentialClusters, fail \in BOOLEAN :
              /\ last.op = "Get" /\ last.err = Nil
              /\ UpdateGlobalnetConfigMap("w1", nc, fail)

SpecSequence == InitSequence /\ [][NextSequence]_vars

\* ---- subctl diagnose deployment, on up to MaxContexts contexts

InitDiagnose ==
    /\ BrokerIdle
    /\ \E n \in 1..MaxContexts : \E c \in Configs(n) : CmdStart(c)

NextDiagnose ==
    \/ Retrieve
    \/ CheckPodsStep
    \/ CheckOverlappingCIDRsStep
    \/ Exit

SpecDiagnose == InitDiagnose /\ [][NextDiagnose]_vars

\* ---- the overlap check alone, on any list of up to MaxEndpoints endpoints:
\* the run is at the call of checkOverlappingCIDRs for its one context.

InitOverlap ==
    /\ BrokerIdle
    /\ \E n \in 0..MaxEndpoints : \E items \in EndpointLists(n) :
        /\ configs = <<[Healthy("cluster1") EXCEPT !.endpoints.Items = items]>>
        /\ idx = 1
        /\ pc = "checkOverlappingCIDRs"
        /\ validationStatus = TRUE
        /\ report = NewReport
        /\ calls = <<<<1, "checkPods">>>>
        /\ pairs = <<>>
        /\ exitCode = 0 - 1

NextOverlap ==
    \/ CheckOverlappingCIDRsStep
    \/ Exit

SpecOverlap == InitOverlap /\ [][NextOverlap]_vars

\* The allocations a ConfigMap object holds.
Allocations(cm) == Unmarshal(DataGet(cm.Data, ClusterInfoKey)).clusterInfo

\* ------------------------------------------------------- broker: claims

ClusterIDsOf(l) == [k \in 1..Len(l) |-> l[k].ClusterID]

HasCluster(l, id) == \E k \in 1..Len(l) : l[k].ClusterID = id

\* A step that is a call of UpdateGlobalnetConfigMap by w.
UpdateStep(w) == last'.op = "Update" /\ last'.w = w /\ configMap[w].present

\* C1: the stored allocations never hold two entries with the same
\* clusterID, whatever the callers upsert and however their calls interleave.
C1_UniqueClusterIDs ==
    stored.present =>
        \A i, j \in 1..Len(Allocations(stored)) :
            i # j => Allocations(stored)[i].ClusterID # Allocations(stored)[j].ClusterID

\* Both clusters are stored, and the last accepted write replaced the
\* CIDRs of a cluster that was stored already.
C1_Witness ==
    /\ Len(Allocations(stored)) = 2
    /\ stored.resourceVersion = 4
    /\ last.op = "Update" /\ last.err = Nil

\* The state before the second of two concurrent persists: both callers
\* fetched the same resourceVersion, v's persist of a cluster was accepted
\* since, and w still holds the record without that cluster.
SecondPersist(w, v, id) ==
    /\ v # w
    /\ configMap[w].present /\ configMap[v].present
    /\ configMap[v].resourceVersion = configMap[w].resourceVersion
    /\ stored.resourceVersion > configMap[w].resourceVersion
    /\ stored.Data = configMap[v].Data
    /\ HasCluster(Allocations(stored), id)
    /\ ~HasCluster(Allocations(configMap[w]), id)

C3_UpsertFrame ==
    [][(UpdateStep("w1") /\ last'.err # ErrUnmarshal) =>
          LET before == Allocations(configMap["w1"])
              after == Allocations(configMap'["w1"])
              nc == last'.newCluster
          IN IF HasCluster(before, nc.ClusterID)
             THEN /\ Len(after) = Len(before)
                  /\ \A k \in 1..Len(before) :
                        /\ after[k].ClusterID = before[k].ClusterID
                        /\ after[k].GlobalCidr =
                              IF before[k].ClusterID = nc.ClusterID
                              THEN nc.GlobalCidr ELSE before[k].GlobalCidr
             ELSE after = Append(before, [ClusterID |-> nc.ClusterID,
                                          GlobalCidr |-> nc.GlobalCidr])]_vars

\* [A, B] upserted with C gave [A, B, C].
C3_Witness ==
    /\ last.op = "Update" /\ last.newCluster.ClusterID = "C"
    /\ ClusterIDsOf(Allocations(configMap["w1"])) = <<"A", "B", "C">>

\* C4: repeating a call of UpdateGlobalnetConfigMap with the same
\* newCluster leaves the allocations of the record as the first call made
\* them, and the stored allocations as the first call's write made them.
C4_UpsertIdempotent ==
    [][(/\ UpdateStep("w1")
        /\ last.op = "Update" /\ last.err # ErrUnmarshal
        /\ last'.newCluster = last.newCluster)
       => /\ Allocations(configMap'["w1"]) = Allocations(configMap["w1"])
          /\ last.err = Nil => Allocations(stored') = Allocations(stored)]_vars

\* The call was repeated after its first write was accepted (only then can
\* the record be stale here), and the stored entry is the one upserted.
C4_Witness ==
    /\ last.op = "Update" /\ last.storeErr = ErrConflict
    /\ \E k \in 1..Len(Allocations(stored)) : Allocations(stored)[k] = last.newCluster
    /\ Allocations(stored) = Allocations(configMap["w1"])

\* C5: CreateGlobalnetConfigMap on a namespace that holds the record
\* already returns nil when the server answers AlreadyExists, returns any
\* other error of the server, and leaves the stored record as it was.
C5_CreateIdempotent ==
    [][(last'.op = "Create" /\ stored.present) =>
          /\ stored' = stored
          /\ last'.storeErr \in {ErrAlreadyExists, ErrStore}
          /\ last'.storeErr = ErrAlreadyExists => last'.err = Nil
          /\ last'.storeErr = ErrStore => last'.err = ErrStore]_vars

\* Create was answered AlreadyExists for a record that holds allocations.
C5_Witness ==
    /\ last.op = "Create" /\ last.storeErr = ErrAlreadyExists /\ last.err = Nil
    /\ Len(Allocations(stored)) >= 1

\* ---------------------------------------------------------- cmd: claims

\* The endpoints of the one context of the overlap check.
Items == configs[1].endpoints.Items

\* The overlap check has run.
OverlapChecked == pc \in {"retrieve", "done"} /\ calls[Len(calls)] = <<1, "checkOverlappingCIDRs">>

\* The messages the pair (i, j) queued, and those it queued for dest's k-th subnet.
QueuedAt(i, j) == {n \in 1..Len(report.log) : report.log[n].at[1] = i /\ report.log[n].at[2] = j}

QueuedFor(i, j, k) == {n \in QueuedAt(i, j) : report.log[n].at[3] = k}

KindOf(n) == report.log[n].msg.kind

\* Bit b of an address, counted from its most significant bit.
Bit(ip, b) == (ip[((b - 1) \div 8) + 1] \div 2^(7 - ((b - 1) % 8))) % 2

Min(a, b) == IF a <= b THEN a ELSE b

\* The address ranges of two subnet strings have an address in common:
\* both are CIDRs of one family that agree on the bits of the shorter prefix.
Intersect(s, t) ==
    /\ s.ok /\ t.ok
    /\ Len(s.ip) = Len(t.ip)
    /\ \A b \in 1..Min(s.len, t.len) : Bit(s.ip, b) = Bit(t.ip, b)

AllCIDRs(subnets) == \A k \in 1..Len(subnets) : subnets[k].ok

\* C6: the overlap check evaluates every pair (i, j), i < j, of the
\* endpoint list exactly once, whatever the earlier pairs queued.
C6_EveryPairOnce ==
    OverlapChecked =>
        /\ \A i, j \in 1..Len(Items) :
              i < j => Cardinality({n \in 1..Len(pairs) : pairs[n] = <<i, j>>}) = 1
        /\ 2 * Len(pairs) = Len(Items) * (Len(Items) - 1)

\* Three endpoints of one cluster: all three pairs were evaluated, each
\* after a failure had been queued for the one before.
C6_Witness ==
    /\ OverlapChecked
    /\ Len(Items) = 3
    /\ \A k \in 1..3 : Items[k].ClusterID = "A"
    /\ pairs = <<<<1, 2>>, <<1, 3>>, <<2, 3>>>>
    /\ Len(report.log) = 3

\* C7: a pair of endpoints of one cluster queues exactly one failure, which
\* names both endpoints and the cluster, and nothing about their subnets.
C7_DuplicateCluster ==
    OverlapChecked =>
        \A i, j \in 1..Len(Items) :
            (i < j /\ Items[i].ClusterID = Items[j].ClusterID) =>
                /\ Cardinality(QueuedAt(i, j)) = 1
                /\ \A n \in QueuedAt(i, j) :
                      /\ report.log[n].severity = "failure"
                      /\ KindOf(n) = "MultipleEndpoints"
                      /\ report.log[n].msg.args =
                            <<Items[i].Name, Items[j].Name, Items[i].ClusterID>>

\* Two endpoints of cluster A whose subnets overlap: one message, about the cluster.
C7_Witness ==
    /\ OverlapChecked
    /\ Len(Items) = 2
    /\ Items[1].ClusterID = Items[2].ClusterID
    /\ Items[1].Subnets = <<Net24>> /\ Items[2].Subnets = <<Host25, Net25>>
    /\ Len(report.log) = 1 /\ KindOf(1) = "MultipleEndpoints"

\* C8: for a pair of endpoints of different clusters (the subnets of source
\* being CIDRs), every subnet of dest that intersects a subnet of source
\* queues one overlap failure naming it and both clusters, and a subnet of
\* dest that intersects none queues no overlap failure.
C8_OverlapPerSubnet ==
    OverlapChecked =>
        \A i, j \in 1..Len(Items) :
            (i < j /\ Items[i].ClusterID # Items[j].ClusterID /\ AllCIDRs(Items[i].Subnets)) =>
                \A k \in 1..Len(Items[j].Subnets) :
                    LET overlaps == {n \in QueuedFor(i, j, k) : KindOf(n) = "Overlap"}
                    IN IF \E m \in 1..Len(Items[i].Subnets) :
                              Intersect(Items[j].Subnets[k], Items[i].Subnets[m])
                       THEN /\ Cardinality(overlaps) = 1
                            /\ \A n \in overlaps :
                                  /\ report.log[n].severity = "failure"
                                  /\ report.log[n].msg.args =
                                        <<Items[j].Subnets[k], Items[j].ClusterID,
                                          Items[i].ClusterID, Items[i].Subnets>>
                       ELSE overlaps = {}

\* A: [10.0.0.0/24], B: [10.0.0.0/25], C: [10.1.0.0/24]: one overlap
\* failure, for (A, B), and nothing that involves C.
C8_Witness ==
    /\ OverlapChecked
    /\ Len(Items) = 3
    /\ Items[1].Subnets = <<Net24>> /\ Items[2].Subnets = <<Net25>>
    /\ Items[3].Subnets = <<Other24>>
    /\ ClusterIDsOf(Items) = <<"A", "B", "C">>
    /\ Len(report.log) = 1
    /\ report.log[1] = Logged("failure", Msg("Overlap", <<Net25, "B", "A", <<Net24>>>>),
                              <<1, 2, 1>>)

\* The failures the two loops queue for the endpoint list l.
FailuresOf(l) == PairLoops(l, 1, 2, Checked(TRUE, StatusStart(NewReport), <<>>)).R.failureQueue

\* The failures the overlap check of this run queued.
FailuresQueued ==
    LET RECURSIVE Sel(_)
        Sel(n) == IF n = 0 THEN <<>>
                  ELSE IF report.log[n].severity = "failure"
                       THEN Append(Sel(n - 1), report.log[n].msg) ELSE Sel(n - 1)
    IN Sel(Len(report.log))

\* The subnets a list of failures reports as overlapping.
Offending(failures) ==
    {failures[n].args[1] : n \in {m \in 1..Len(failures) : failures[m].kind = "Overlap"}}

Reversed(l) == [k \in 1..Len(l) |-> l[Len(l) + 1 - k]]

\* C9, as claimed: for two endpoints (their subnets being CIDRs) the check
\* queues as many issues, about the same subnets, for the list [B, A] as
\* for [A, B].
C9_SameIssuesEitherOrder ==
    (/\ OverlapChecked /\ Len(Items) = 2
     /\ AllCIDRs(Items[1].Subnets) /\ AllCIDRs(Items[2].Subnets)) =>
        /\ Len(FailuresOf(Reversed(Items))) = Len(FailuresQueued)
        /\ Offending(FailuresOf(Reversed(Items))) = Offending(FailuresQueued)

\* C9, amended: for two endpoints whose subnets are CIDRs, the check queues
\* a failure for [A, B] exactly if it queues one for [B, A], and for two
\* endpoints of one cluster it queues one failure in either order.
C9_SameVerdictEitherOrder ==
    (/\ OverlapChecked /\ Len(Items) = 2
     /\ AllCIDRs(Items[1].Subnets) /\ AllCIDRs(Items[2].Subnets)) =>
        /\ (FailuresOf(Reversed(Items)) = <<>>) <=> (FailuresQueued = <<>>)
        /\ (FailuresOf(Reversed(Items)) = <<>>) <=> validationStatus
        /\ Items[1].ClusterID = Items[2].ClusterID =>
              Len(FailuresOf(Reversed(Items))) = 1 /\ Len(FailuresQueued) = 1

\* [10.0.0.0/24] before [10.0.0.129/25, 10.0.0.0/25] queued two failures;
\* the other order queues one.
C9_Witness ==
    /\ OverlapChecked /\ Len(Items) = 2
    /\ Items[1].ClusterID # Items[2].ClusterID
    /\ Items[1].Subnets = <<Net24>> /\ Items[2].Subnets = <<Host25, Net25>>
    /\ Len(FailuresQueued) = 2
    /\ Len(FailuresOf(Reversed(Items))) = 1
    /\ ~validationStatus

\* C10: when the run ends, checkPods and checkOverlappingCIDRs were both
\* called for every context that has a Submariner resource.
C10_EveryCheckRuns ==
    pc = "done" =>
        \A k \in 1..Len(configs) :
            configs[k].submariner.present =>
                /\ \E n \in 1..Len(calls) : calls[n] = <<k, "checkPods">>
                /\ \E n \in 1..Len(calls) : calls[n] = <<k, "checkOverlappingCIDRs">>

\* ------------------------------------------------- cmd: claims of the run

\* A DaemonSet as CheckDaemonset wants it, a Deployment as CheckDeployment does.
Scheduled(d) == d.found /\ d.CurrentNumberScheduled = d.DesiredNumberScheduled

Available(d) == d.found /\ d.AvailableReplicas = (IF d.Replicas = 0 - 1 THEN 1 ELSE d.Replicas)

\* The cluster passes its health check: the components its Submariner
\* resource asks for are as desired and every pod is running.
Healthful(c) ==
    /\ Scheduled(c.daemonSets["submariner-gateway"])
    /\ Scheduled(c.daemonSets["submariner-routeagent"])
    /\ c.submariner.ServiceDiscoveryEnabled =>
          /\ Available(c.deployments["submariner-lighthouse-agent"])
          /\ Available(c.deployments["submariner-lighthouse-coredns"])
    /\ c.submariner.GlobalCIDR # "" => Scheduled(c.daemonSets["submariner-globalnet"])
    /\ ~c.pods.err
    /\ \A k \in 1..Len(c.pods.Items) : c.pods.Items[k].Phase = "Running"

\* The cluster passes its overlap check (its endpoints' subnets being
\* CIDRs): the endpoints can be listed, no two are of one cluster and no
\* subnets of two of them intersect.
Disjoint(c) ==
    /\ ~c.endpoints.err
    /\ \A i, j \in 1..Len(c.endpoints.Items) :
          i < j =>
              /\ c.endpoints.Items[i].ClusterID # c.endpoints.Items[j].ClusterID
              /\ \A k \in 1..Len(c.endpoints.Items[j].Subnets),
                    m \in 1..Len(c.endpoints.Items[i].Subnets) :
                    ~Intersect(c.endpoints.Items[j].Subnets[k], c.endpoints.Items[i].Subnets[m])

\* Some message of the given severity was queued during the run.
Reported(severity) == \E n \in 1..Len(report.log) : report.log[n].severity = severity

ReportedKind(kind) == \E n \in 1..Len(report.log) : report.log[n].msg.kind = kind

\* C11: the run exits with 1 exactly if some context that has a Submariner
\* resource fails its health check or its overlap check, else with 0.
C11_ExitCode ==
    pc = "done" =>
        exitCode = IF \A k \in 1..Len(configs) :
                          configs[k].submariner.present =>
                              Healthful(configs[k]) /\ Disjoint(configs[k])
                   THEN 0 ELSE 1

\* The first context passes both checks, the second only its health check:
\* exit code 1.
C11_Witness ==
    /\ pc = "done" /\ exitCode = 1 /\ Len(configs) = 2
    /\ Healthful(configs[1]) /\ Disjoint(configs[1])
    /\ Healthful(configs[2]) /\ ~Disjoint(configs[2]) /\ ~configs[2].endpoints.err
    /\ calls = <<<<1, "checkPods">>, <<1, "checkOverlappingCIDRs">>,
                 <<2, "checkPods">>, <<2, "checkOverlappingCIDRs">>>>

\* C12: a run that queued no failure, whatever warnings it queued, exits
\* with 0; a run that exits with 1 queued a failure.
C12_WarningsPass ==
    pc = "done" => (exitCode = 0 <=> ~Reported("failure"))

\* A container that restarted 5 times in the first context, no Submariner
\* resource in the second: two warnings, exit code 0.
C12_Witness ==
    /\ pc = "done" /\ exitCode = 0
    /\ ReportedKind("PodRestarted") /\ ReportedKind("SubmMissing")
    /\ ~Reported("failure")

\* The contexts whose listing of the endpoints failed.
ListingFailed == {k \in 1..Len(configs) : configs[k].endpoints.err /\ \E n \in 1..Len(calls) :
                                              calls[n] = <<k, "checkOverlappingCIDRs">>}

\* C13: when the listing of the endpoints fails, checkOverlappingCIDRs
\* queues one failure, evaluates no pair and returns false; the run is not
\* aborted: it goes on to check the remaining contexts, and exits with 1.
C13_ListErrorFailsClusterOnly ==
    [][/\ (pc = "checkOverlappingCIDRs" /\ validationStatus /\ configs[idx].endpoints.err) =>
             /\ report'.log =
                   Append(report.log,
                          Logged("failure",
                                 Msg("ErrorListingEndpoints", <<configs[idx].submariner.ClusterID>>),
                                 Nowhere))
             /\ pairs' = <<>>
             /\ ~validationStatus'
             /\ pc' = "retrieve" /\ idx' = idx + 1 /\ exitCode' = 0 - 1
       /\ (pc' = "done" /\ ListingFailed # {}) =>
             /\ exitCode' = 1
             /\ \A k \in ListingFailed, m \in 1..Len(configs) :
                   (m > k /\ configs[m].submariner.present) =>
                       /\ \E n \in 1..Len(calls) : calls[n] = <<m, "checkPods">>
                       /\ \E n \in 1..Len(calls) : calls[n] = <<m, "checkOverlappingCIDRs">>]_vars

\* C16: the overlap check returns true exactly if it queued no failure
\* while it evaluated the pairs; for no endpoint and for one endpoint it
\* returns true, queues no issue and evaluates no pair.
C16_OkIffNoFailure ==
    OverlapChecked =>
        /\ validationStatus <=> ~Reported("failure")
        /\ Len(Items) <= 1 =>
              /\ validationStatus
              /\ ~Reported("failure") /\ ~Reported("warning")
              /\ pairs = <<>>

\* The empty endpoint list: true, the success message and nothing else.
C16_Witness ==
    /\ OverlapChecked
    /\ Items = <<>>
    /\ validationStatus
    /\ pairs = <<>>
    /\ Len(report.log) = 1 /\ report.log[1].severity = "success"

\* C20: for a pair of endpoints of different clusters, a subnet of dest
\* that is no CIDR queues one failure naming dest's cluster and nothing
\* else; the subnets of dest after it are still compared (one that
\* intersects the first, valid, subnet of source queues its overlap
\* failure), every pair is evaluated, and the check returns false.
C20_UnparsableSubnet ==
    OverlapChecked =>
        /\ \A i, j \in 1..Len(Items) :
              (i < j /\ Items[i].ClusterID # Items[j].ClusterID) =>
                  \A k \in 1..Len(Items[j].Subnets) :
                      /\ ~Items[j].Subnets[k].ok =>
                            /\ Cardinality(QueuedFor(i, j, k)) = 1
                            /\ \A n \in QueuedFor(i, j, k) :
                                  /\ report.log[n].severity = "failure"
                                  /\ KindOf(n) = "ErrorParsingCIDR"
                                  /\ report.log[n].msg.args = <<Items[j].ClusterID>>
                      /\ (/\ Items[i].Subnets # <<>>
                          /\ Intersect(Items[j].Subnets[k], Items[i].Subnets[1])) =>
                            /\ Cardinality(QueuedFor(i, j, k)) = 1
                            /\ \A n \in QueuedFor(i, j, k) : KindOf(n) = "Overlap"
        /\ ReportedKind("ErrorParsingCIDR") =>
              /\ ~validationStatus
              /\ 2 * Len(pairs) = Len(Items) * (Len(Items) - 1)

\* dest's first subnet is no CIDR, its second is the subnet of source: the
\* parse failure, then the overlap; and the third endpoint's pairs follow
\* (as source, the second endpoint makes the third's subnet fail to compare).
C20_Witness ==
    /\ OverlapChecked
    /\ Len(Items) = 3
    /\ ClusterIDsOf(Items) = <<"A", "B", "C">>
    /\ Items[1].Subnets = <<Net24>> /\ Items[2].Subnets = <<NotACIDR, Net24>>
    /\ Items[3].Subnets = <<Net25>>
    /\ ~validationStatus
    /\ Len(report.log) = 4
    /\ report.log[1] = Logged("failure", Msg("ErrorParsingCIDR", <<"B">>), <<1, 2, 1>>)
    /\ report.log[2].at = <<1, 2, 2>> /\ KindOf(2) = "Overlap"
    /\ report.log[3].at = <<1, 3, 1>> /\ KindOf(3) = "Overlap"
    /\ report.log[4] = Logged("failure", Msg("ErrorParsingCIDR", <<"C">>), <<2, 3, 1>>)

\* ------------------------------------------- broker: claims of the record

\* The text of clusterinfo in the record the caller holds.
HeldText(w) == DataGet(configMap[w].Data, ClusterInfoKey)

\* C14: when clusterinfo of the record does not decode,
\* UpdateGlobalnetConfigMap returns the error of the decoding, sends no
\* Update and leaves the stored record and the caller's record as they were.
C14_CorruptNoWrite ==
    [][(UpdateStep("w1") /\ HeldText("w1") \in CorruptTexts) =>
          /\ last'.err = ErrUnmarshal
          /\ last'.storeErr = NotCalled
          /\ stored' = stored
          /\ configMap' = configMap]_vars

\* The call on a record whose clusterinfo is a cut-off array.
C14_Witness ==
    /\ last.op = "Update" /\ last.err = ErrUnmarshal /\ last.storeErr = NotCalled
    /\ DataGet(stored.Data, ClusterInfoKey) = <<LBracket>>
    /\ stored.resourceVersion = 2

\* A NetworkRegistry value.
Registry(enabled, defaultCidrRange, defaultClusterSize, allocations) ==
    [enabled |-> enabled, defaultCidrRange |-> defaultCidrRange,
     defaultClusterSize |-> defaultClusterSize, allocations |-> allocations]

\* The number of a decimal string (0 for the empty one).
RECURSIVE ParseUint(_)
ParseUint(digits) ==
    IF digits = <<>> THEN 0
    ELSE 10 * ParseUint(SubSeq(digits, 1, Len(digits) - 1)) + digits[Len(digits)]

\* The string of a JSON string literal (the empty string for no text).
UnmarshalString(text) == IF Len(text) = 1 /\ text[1].t = "str" THEN text[1].v ELSE ""

\* The registry value of the fields of a record: a field that is absent
\* gives the zero value.
Decode(Data) ==
    Registry(GlobalnetStatusKey \in DOMAIN Data /\ Data[GlobalnetStatusKey] = "true",
             UnmarshalString(DataGet(Data, GlobalnetCidrRange)),
             ParseUint(DataGet(Data, GlobalnetClusterSize)),
             Unmarshal(DataGet(Data, ClusterInfoKey)).clusterInfo)

\* The fields NewGlobalnetConfigMap and UpdateGlobalnetConfigMap write for
\* a registry value.
Encode(x) == Written(x.enabled, x.defaultCidrRange, x.defaultClusterSize, x.allocations).Data

\* The registry values of the model.
Registries ==
    {Registry(e, r, s, l) :
        e \in BOOLEAN, r \in CidrRanges, s \in ClusterSizes,
        l \in UNION {AllocationLists(ClusterIDs, n) : n \in 0..MaxAllocations + 1}}

\* C15, as claimed: the fields of a registry value, with the flag true or
\* false, decode to that value.
C15_RoundTrip ==
    \A x \in Registries : stored.Data = Encode(x) => Decode(stored.Data) = x

\* C15, amended: the fields of a registry value decode to its flag and its
\* allocations, and with the flag true to its range and its cluster size;
\* with the flag false the range and the size are not written and decode
\* to the empty string and to 0.
C15_RoundTripEnabled ==
    \A x \in Registries :
        stored.Data = Encode(x) =>
            Decode(stored.Data) =
                IF x.enabled THEN x ELSE Registry(FALSE, "", 0, x.allocations)

\* A stored record with the flag true and two allocations, one of two
\* CIDRs, written by a call: it decodes to the range, the size and the list.
C15_Witness ==
    /\ last.op = "Update" /\ last.err = Nil
    /\ Len(last.newCluster.GlobalCidr) = 2
    /\ LET x == Decode(stored.Data)
       IN /\ x.enabled /\ x.defaultCidrRange = "169.254.0.0/16" /\ x.defaultClusterSize = 8192
          /\ Len(x.allocations) = 2
          /\ x.allocations[2] = last.newCluster
          /\ stored.Data = Encode(x)

\* C17, as claimed: UpdateGlobalnetConfigMap leaves the record the caller
\* passed in as it was, and after a failed persist that record still
\* equals the stored one.
C17_CallerRecordUntouched ==
    [][UpdateStep("w1") =>
          /\ configMap'["w1"] = configMap["w1"]
          /\ (last'.err # Nil /\ configMap["w1"].Data = stored.Data) =>
                configMap'["w1"].Data = stored'.Data]_vars

\* C17, amended: UpdateGlobalnetConfigMap merges in place: unless the
\* decoding fails (and then nothing changes), the record the caller passed
\* in holds newCluster's entry afterwards, whether or not the persist was
\* accepted, with its other fields and its resourceVersion as before; a
\* persist that fails leaves the stored record as it was.
C17_MergesInPlace ==
    [][UpdateStep("w1") =>
          IF last'.err = ErrUnmarshal
          THEN configMap' = configMap /\ stored' = stored
          ELSE /\ \E k \in 1..Len(Allocations(configMap'["w1"])) :
                     Allocations(configMap'["w1"])[k] = last'.newCluster
               /\ configMap'["w1"].resourceVersion = configMap["w1"].resourceVersion
               /\ DOMAIN configMap'["w1"].Data = DOMAIN configMap["w1"].Data
               /\ \A key \in DOMAIN configMap["w1"].Data \ {ClusterInfoKey} :
                     configMap'["w1"].Data[key] = configMap["w1"].Data[key]
               /\ last'.err # Nil => stored' = stored]_vars

\* The persist failed: the caller's record holds the new cluster, the
\* stored record does not.
C17_Witness ==
    /\ last.op = "Update" /\ last.err = ErrStore
    /\ HasCluster(Allocations(configMap["w1"]), last.newCluster.ClusterID)
    /\ ~HasCluster(Allocations(stored), last.newCluster.ClusterID)
    /\ Len(Allocations(stored)) = 1

\* The record has clusterinfo, which decodes, and the flag; it has the
\* range and the cluster size exactly if the flag is "true".
WellFormed(cm) ==
    /\ ClusterInfoKey \in DOMAIN cm.Data
    /\ Unmarshal(cm.Data[ClusterInfoKey]).err = Nil
    /\ GlobalnetStatusKey \in DOMAIN cm.Data
    /\ cm.Data[GlobalnetStatusKey] \in {"true", "false"}
    /\ GlobalnetCidrRange \in DOMAIN cm.Data <=> cm.Data[GlobalnetStatusKey] = "true"
    /\ GlobalnetClusterSize \in DOMAIN cm.Data <=> cm.Data[GlobalnetStatusKey] = "true"

\* C18: every stored record is well formed; right after its creation its
\* allocations are empty; and no call changes a field of the stored record
\* other than clusterinfo.
C18_StoredWellFormed ==
    [][/\ stored'.present => WellFormed(stored')
       /\ (~stored.present /\ stored'.present) =>
             stored'.Data[ClusterInfoKey] = <<LBracket, RBracket>>
       /\ stored.present =>
             /\ stored'.present
             /\ DOMAIN stored'.Data = DOMAIN stored.Data
             /\ \A key \in DOMAIN stored.Data \ {ClusterInfoKey} :
                   stored'.Data[key] = stored.Data[key]]_vars

\* A record created with the flag false, after two accepted upserts.
C18_Witness ==
    /\ stored.present
    /\ stored.Data[GlobalnetStatusKey] = "false"
    /\ DOMAIN stored.Data = {GlobalnetStatusKey, ClusterInfoKey}
    /\ Len(Allocations(stored)) = 2
    /\ last.op = "Update" /\ last.err = Nil

\* The place of the first and of the last upsert of cluster id in a history.
FirstOf(h, id) ==
    CHOOSE k \in 1..Len(h) : h[k].ClusterID = id /\ \A m \in 1..(k - 1) : h[m].ClusterID # id

LastOf(h, id) ==
    CHOOSE k \in 1..Len(h) : h[k].ClusterID = id /\ \A m \in (k + 1)..Len(h) : h[m].ClusterID # id

\* C19: when every upsert is a fetch followed by a persist and they follow
\* one another, the stored allocations hold one entry for every cluster
\* whose upsert was ever persisted and no other, in the order of the
\* clusters' first upserts, each with the GlobalCidr of its cluster's last
\* upsert.
C19_SequentialHistory ==
    stored.present =>
        LET a == Allocations(stored)
            h == upserts.seq
        IN /\ {a[k].ClusterID : k \in 1..Len(a)} = {h[k].ClusterID : k \in 1..Len(h)}
           /\ Len(a) = Cardinality({h[k].ClusterID : k \in 1..Len(h)})
           /\ \A i, j \in 1..Len(a) :
                 i < j => FirstOf(h, a[i].ClusterID) < FirstOf(h, a[j].ClusterID)
           /\ \A i \in 1..Len(a) : a[i].GlobalCidr = h[LastOf(h, a[i].ClusterID)].GlobalCidr

\* B, then A, then B again with other CIDRs: [B, A], B with the later CIDRs.
C19_Witness ==
    /\ Len(upserts.seq) = 3
    /\ ClusterIDsOf(upserts.seq) = <<"B", "A", "B">>
    /\ upserts.seq[1].GlobalCidr # upserts.seq[3].GlobalCidr
    /\ ClusterIDsOf(Allocations(stored)) = <<"B", "A">>
    /\ Allocations(stored)[1].GlobalCidr = upserts.seq[3].GlobalCidr

====
